---- MODULE Spec2Model ----
(***************************************************************************)
(* Model of the tool-generation orchestration of APIBridge                 *)
(* (src/tools_generator/agent.py): the shared state_data dictionary, its   *)
(* three setters, validate_state, create_agent and write_code_to_tool.     *)
(*                                                                         *)
(* A Python str is a sequence of one-character strings.  The class         *)
(* AgentGenerator (tools_generator/generator/agent_generator.py) is        *)
(* imported by agent.py but its source is not available; its constructor   *)
(* and its write_to_tool method are modelled from the specification        *)
(* (sections 3 and 4.4: one append-only module per session).               *)
(*                                                                         *)
(* Specifications: Spec (every tool function, in any order), SpecStrings   *)
(* (the configuration over longer strings), SpecGenerated (generated code  *)
(* with a tool_list), SpecConcurrent (validate_state step by step beside   *)
(* the setters) and SpecServer (the payment routes of src/gcp/server.py).  *)
(***************************************************************************)
EXTENDS Naturals, Sequences, FiniteSets, TLC

VARIABLES
    state_data,  \* the module-level dict of agent.py
    tool_file,   \* the generated tool module: the fragments appended so far
    op,          \* name of the operation that ran last ("init" before any)
    arg,         \* the str argument of that operation (<<>> when it takes none)
    ret,         \* what it returned: "None", "True", "False" or "AgentGenerator"
    raised,      \* the exception it raised ("" when it returned normally)
    created,     \* history: some create_agent call has completed
    ever_valid,  \* history: some validate_state call has returned True
    written,     \* history: the code of every write_code_to_tool call that returned
    last_set,    \* history: per field, the value its setter was last called with
    validations, \* history: validate_state calls made in succession, counted up to 2
    storage_error, \* the error the file I/O under write_to_tool raised in the last
                   \* operation ("" when it raised none)
    payments_store, \* server.py: payment id -> stored payment
    payouts_store,  \* server.py: payout id -> stored payout
    utc_now,        \* server.py: what datetime.utcnow() returns next
    request,        \* server.py: the request handled last
    response,       \* server.py: the answer to it
    initiated,      \* history: payment id -> what its initiate request asked for
    pc,             \* where a validate_state call that runs beside the setters is
    local_is_valid, \* its local is_valid ("" while not computed)
    checked_org     \* history: the org_name its validity check read

\* the variables of agent.py that every operation of it sets or leaves alone itself
toolVars == <<state_data, tool_file, op, arg, ret, raised, created, ever_valid,
              written, last_set, validations>>

\* the variables of the demonstration server (src/gcp/server.py)
serverVars == <<payments_store, payouts_store, utc_now, request, response,
                initiated>>

\* the variables of a validate_state call running step by step
threadVars == <<pc, local_is_valid, checked_org>>

vars == <<toolVars, storage_error, serverVars, threadVars>>

----------------------------------------------------------------------------
(* Bounds of the model *)

\* longest str given to a setter when only the configuration is exercised
MaxLen == 2
\* longest str given to a setter when every operation is exercised
MaxNameLen == 1
\* number of fragments the module may hold
MaxWrites == 2
\* number of statements in one piece of generated code
MaxStmts == 2
\* number of ids uuid4() hands out
MaxIds == 3

\* characters str.strip() removes, and one it keeps
Whitespace == {" "}
Alphabet == Whitespace \cup {"a"}

StrUpTo(S, n) == UNION {[1..k -> S] : k \in 0..n}
Strings == StrUpTo(Alphabet, MaxLen)
Names == StrUpTo(Alphabet, MaxNameLen)
\* code given to write_code_to_tool: the empty string and a non-empty one
Codes == {<<>>, <<"a">>}
\* generated code, read as Python: a sequence of top-level statements, each
\* either "def <name>(...): ..." or "tool_list = [<name>]"
ToolNames == {"f", "g"}
Statements == [kind : {"def", "tool_list"}, name : ToolNames]
GeneratedCodes == StrUpTo(Statements, MaxStmts)
\* what the file I/O under write_to_tool may raise
StorageErrors == {"OSError"}

----------------------------------------------------------------------------
(* str.strip(): drop leading whitespace, then trailing whitespace *)

RECURSIVE lstrip(_)
lstrip(s) ==
    IF s # <<>> /\ Head(s) \in Whitespace THEN lstrip(Tail(s)) ELSE s

RECURSIVE rstrip(_)
rstrip(s) ==
    IF s # <<>> /\ s[Len(s)] \in Whitespace
    THEN rstrip(SubSeq(s, 1, Len(s) - 1))
    ELSE s

\* mutant: the field is compared without .strip()
strip_forgotten(s) == s

strip(s) == rstrip(lstrip(s))

RequiredKeys == {"org_name", "base_url", "swagger_json"}

\* state_data as the module is imported
InitialStateData ==
    [org_name |-> <<>>, base_url |-> <<>>, swagger_json |-> <<>>]

\* the all(...) expression of validate_state
is_valid(sd) ==
    \A key \in RequiredKeys : key \in DOMAIN sd /\ strip(sd[key]) # <<>>

\* AgentGenerator(org_name): the handle remembers the name it was built from
AgentGenerator(org_name) == [org_name |-> org_name]

\* AgentGenerator.write_to_tool(code): append the fragment to the module
write_to_tool(file, code) == Append(file, code)

\* AgentGenerator.write_to_tool(code) when the file I/O fails: nothing is appended
write_to_tool_failed(file, code) == file

\* the module as one text: its fragments one after the other
RECURSIVE ModuleText(_)
ModuleText(file) ==
    IF file = <<>> THEN <<>> ELSE Head(file) \o ModuleText(Tail(file))

\* the top-level function names the module defines when it is loaded
Definitions(file) ==
    {ModuleText(file)[i].name :
        i \in {j \in 1..Len(ModuleText(file)) : ModuleText(file)[j].kind = "def"}}

\* the manifest of the loaded module: what tool_list is bound to at its end,
\* that is, the names of its last "tool_list = [...]" statement
Manifest(file) ==
    LET text == ModuleText(file)
        at == {j \in 1..Len(text) : text[j].kind = "tool_list"}
    IN  IF at = {} THEN {}
        ELSE {text[CHOOSE j \in at : \A k \in at : k <= j].name}

\* state_data after the body of create_agent
create_agent_state(sd) ==
    [k \in DOMAIN sd \cup {"agent"} |->
        IF k = "agent" THEN AgentGenerator(sd["org_name"]) ELSE sd[k]]

----------------------------------------------------------------------------
Init ==
    /\ state_data = InitialStateData
    /\ tool_file = <<>>
    /\ op = "init"
    /\ arg = <<>>
    /\ ret = "None"
    /\ raised = ""
    /\ created = FALSE
    /\ ever_valid = FALSE
    /\ written = <<>>
    /\ last_set = InitialStateData
    /\ validations = 0
    /\ storage_error = ""
    /\ payments_store = <<>>
    /\ payouts_store = <<>>
    /\ utc_now = 0
    /\ request = [route |-> "none"]
    /\ response = [status_code |-> 0]
    /\ initiated = <<>>
    /\ pc = "idle"
    /\ local_is_valid = ""
    /\ checked_org = <<>>

\* mutant: set_org_name stores under the key of another setter
set_org_name_wrong_key(org_name) ==
    /\ state_data' = [state_data EXCEPT !["base_url"] = org_name]
    /\ op' = "set_org_name"
    /\ arg' = org_name
    /\ ret' = "None"
    /\ raised' = ""
    /\ last_set' = [last_set EXCEPT !["org_name"] = org_name]
    /\ validations' = 0
    /\ UNCHANGED <<tool_file, created, ever_valid, written>>

set_org_name(org_name) ==
    /\ state_data' = [state_data EXCEPT !["org_name"] = org_name]
    /\ op' = "set_org_name"
    /\ arg' = org_name
    /\ ret' = "None"
    /\ raised' = ""
    /\ last_set' = [last_set EXCEPT !["org_name"] = org_name]
    /\ validations' = 0
    /\ UNCHANGED <<tool_file, created, ever_valid, written>>

set_base_url(base_url) ==
    /\ state_data' = [state_data EXCEPT !["base_url"] = base_url]
    /\ op' = "set_base_url"
    /\ arg' = base_url
    /\ ret' = "None"
    /\ raised' = ""
    /\ last_set' = [last_set EXCEPT !["base_url"] = base_url]
    /\ validations' = 0
    /\ UNCHANGED <<tool_file, created, ever_valid, written>>

set_swagger_json(swagger_json) ==
    /\ state_data' = [state_data EXCEPT !["swagger_json"] = swagger_json]
    /\ op' = "set_swagger_json"
    /\ arg' = swagger_json
    /\ ret' = "None"
    /\ raised' = ""
    /\ last_set' = [last_set EXCEPT !["swagger_json"] = swagger_json]
    /\ validations' = 0
    /\ UNCHANGED <<tool_file, created, ever_valid, written>>

\* mutant: create_agent is called whatever is_valid says
validate_state_creates_always ==
    /\ state_data' = create_agent_state(state_data)
    /\ op' = "validate_state"
    /\ arg' = <<>>
    /\ ret' = IF is_valid(state_data) THEN "True" ELSE "False"
    /\ raised' = ""
    /\ created' = TRUE
    /\ ever_valid' = (ever_valid \/ is_valid(state_data))
    /\ validations' = IF validations = 0 THEN 1 ELSE 2
    /\ UNCHANGED <<tool_file, written, last_set>>

\* mutant: the commented-out agent.write_to_tool(res) of line 79 is executed
validate_state_writes ==
    /\ state_data' = IF is_valid(state_data)
                     THEN create_agent_state(state_data)
                     ELSE state_data
    /\ op' = "validate_state"
    /\ arg' = <<>>
    /\ ret' = IF is_valid(state_data) THEN "True" ELSE "False"
    /\ raised' = ""
    /\ created' = (created \/ is_valid(state_data))
    /\ ever_valid' = (ever_valid \/ is_valid(state_data))
    /\ validations' = IF validations = 0 THEN 1 ELSE 2
    /\ tool_file' = IF is_valid(state_data)
                    THEN write_to_tool(tool_file, <<"a">>)
                    ELSE tool_file
    /\ written' = IF is_valid(state_data)
                  THEN Append(written, <<"a">>)
                  ELSE written
    /\ UNCHANGED last_set

\* mutant: a failed validation discards the handle of an earlier one
validate_state_drops_handle ==
    /\ state_data' = IF is_valid(state_data)
                     THEN create_agent_state(state_data)
                     ELSE [k \in DOMAIN state_data \ {"agent"} |-> state_data[k]]
    /\ op' = "validate_state"
    /\ arg' = <<>>
    /\ ret' = IF is_valid(state_data) THEN "True" ELSE "False"
    /\ raised' = ""
    /\ created' = (created \/ is_valid(state_data))
    /\ ever_valid' = (ever_valid \/ is_valid(state_data))
    /\ validations' = IF validations = 0 THEN 1 ELSE 2
    /\ UNCHANGED <<tool_file, written, last_set>>

validate_state ==
    /\ state_data' = IF is_valid(state_data)
                     THEN create_agent_state(state_data)
                     ELSE state_data
    /\ op' = "validate_state"
    /\ arg' = <<>>
    /\ ret' = IF is_valid(state_data) THEN "True" ELSE "False"
    /\ raised' = ""
    /\ created' = (created \/ is_valid(state_data))
    /\ ever_valid' = (ever_valid \/ is_valid(state_data))
    /\ validations' = IF validations = 0 THEN 1 ELSE 2
    /\ UNCHANGED <<tool_file, written, last_set>>

create_agent ==
    /\ state_data' = create_agent_state(state_data)
    /\ op' = "create_agent"
    /\ arg' = <<>>
    /\ ret' = "AgentGenerator"
    /\ raised' = ""
    /\ created' = TRUE
    /\ validations' = 0
    /\ UNCHANGED <<tool_file, ever_valid, written, last_set>>

\* mutant: a missing handle is tolerated, the code is appended all the same
write_code_to_tool_no_handle_check(code) ==
    /\ op' = "write_code_to_tool"
    /\ arg' = code
    /\ ret' = "None"
    /\ Len(tool_file) < MaxWrites
    /\ tool_file' = write_to_tool(tool_file, code)
    /\ written' = Append(written, code)
    /\ raised' = ""
    /\ validations' = 0
    /\ UNCHANGED <<state_data, created, ever_valid, last_set>>

\* mutant: the call returns without delegating to agent.write_to_tool
write_code_to_tool_not_delegated(code) ==
    /\ op' = "write_code_to_tool"
    /\ arg' = code
    /\ ret' = "None"
    /\ IF "agent" \in DOMAIN state_data
       THEN /\ Len(written) < MaxWrites
            /\ written' = Append(written, code)
            /\ raised' = ""
       ELSE /\ raised' = "KeyError"
            /\ UNCHANGED written
    /\ validations' = 0
    /\ UNCHANGED <<state_data, tool_file, created, ever_valid, last_set>>

write_code_to_tool(code) ==
    /\ op' = "write_code_to_tool"
    /\ arg' = code
    /\ ret' = "None"
    /\ IF "agent" \in DOMAIN state_data
       THEN /\ Len(tool_file) < MaxWrites
            /\ tool_file' = write_to_tool(tool_file, code)
            /\ written' = Append(written, code)
            /\ raised' = ""
       ELSE /\ raised' = "KeyError"
            /\ UNCHANGED <<tool_file, written>>
    /\ validations' = 0
    /\ UNCHANGED <<state_data, created, ever_valid, last_set>>

\* mutant: the storage error is caught and dropped, the call returns None
write_code_to_tool_storage_fails_swallowed(code, err) ==
    /\ "agent" \in DOMAIN state_data
    /\ op' = "write_code_to_tool"
    /\ arg' = code
    /\ ret' = "None"
    /\ tool_file' = write_to_tool_failed(tool_file, code)
    /\ raised' = ""
    /\ storage_error' = err
    /\ validations' = 0
    /\ UNCHANGED <<state_data, created, ever_valid, written, last_set>>

\* write_code_to_tool when the file I/O under agent.write_to_tool raises err:
\* line 129 has no try/except, the exception leaves the function as it is
write_code_to_tool_storage_fails(code, err) ==
    /\ "agent" \in DOMAIN state_data
    /\ op' = "write_code_to_tool"
    /\ arg' = code
    /\ ret' = "None"
    /\ tool_file' = write_to_tool_failed(tool_file, code)
    /\ raised' = err
    /\ storage_error' = err
    /\ validations' = 0
    /\ UNCHANGED <<state_data, created, ever_valid, written, last_set>>

\* an operation during which the storage raises nothing; the server is
\* another process, untouched by the tool functions
NoStorageError ==
    storage_error' = "" /\ UNCHANGED <<serverVars, threadVars>>

SetOrgName == (\E v \in Names : set_org_name(v)) /\ NoStorageError
SetBaseUrl == (\E v \in Names : set_base_url(v)) /\ NoStorageError
SetSwaggerJson == (\E v \in Names : set_swagger_json(v)) /\ NoStorageError
ValidateState == validate_state /\ NoStorageError
CreateAgent == create_agent /\ NoStorageError
WriteCodeToTool == (\E code \in Codes : write_code_to_tool(code)) /\ NoStorageError
WriteCodeToToolStorageFails ==
    /\ \E code \in Codes, err \in StorageErrors :
           write_code_to_tool_storage_fails(code, err)
    /\ UNCHANGED <<serverVars, threadVars>>

Next ==
    \/ SetOrgName
    \/ SetBaseUrl
    \/ SetSwaggerJson
    \/ ValidateState
    \/ CreateAgent
    \/ WriteCodeToTool
    \/ WriteCodeToToolStorageFails

\* every operation, in any order
Spec == Init /\ [][Next]_vars

\* the configuration alone, over longer strings: the setters and validate_state
SetOrgNameStr == (\E v \in Strings : set_org_name(v)) /\ NoStorageError
SetBaseUrlStr == (\E v \in Strings : set_base_url(v)) /\ NoStorageError
SetSwaggerJsonStr == (\E v \in Strings : set_swagger_json(v)) /\ NoStorageError

NextStrings ==
    \/ SetOrgNameStr
    \/ SetBaseUrlStr
    \/ SetSwaggerJsonStr
    \/ ValidateState

SpecStrings == Init /\ [][NextStrings]_vars

\* the tool-generation agent at work: a handle is made and generated code,
\* function definitions with a tool_list, is handed to write_code_to_tool
WriteGeneratedCode ==
    (\E code \in GeneratedCodes : write_code_to_tool(code)) /\ NoStorageError

NextGenerated ==
    \/ CreateAgent
    \/ WriteGeneratedCode

SpecGenerated == Init /\ [][NextGenerated]_vars

----------------------------------------------------------------------------
(* validate_state in one thread, the setters in others.  A setter is one     *)
(* dict assignment and takes effect at once; validate_state reads            *)
(* state_data key by key in the all(...) of lines 71-74, then, in            *)
(* create_agent, reads state_data["org_name"] once more (line 93).           *)

\* the call is made
validate_state_call ==
    /\ pc = "idle"
    /\ pc' = "check_org_name"
    /\ local_is_valid' = ""
    /\ UNCHANGED <<toolVars, checked_org>>

\* one turn of the generator inside all(...): all stops at the first False
validate_state_check(at, key, then) ==
    /\ pc = at
    /\ IF strip(state_data[key]) # <<>>
       THEN /\ pc' = then
            /\ local_is_valid' = IF then = "create" THEN "True" ELSE ""
       ELSE /\ pc' = "return"
            /\ local_is_valid' = "False"
    /\ checked_org' = IF key = "org_name" THEN state_data[key] ELSE checked_org
    /\ UNCHANGED toolVars

validate_state_check_org_name ==
    validate_state_check("check_org_name", "org_name", "check_base_url")
validate_state_check_base_url ==
    validate_state_check("check_base_url", "base_url", "check_swagger_json")
validate_state_check_swagger_json ==
    validate_state_check("check_swagger_json", "swagger_json", "create")

\* lines 76-78: is_valid holds, create_agent() reads org_name and stores the handle
validate_state_create ==
    /\ pc = "create"
    /\ pc' = "return"
    /\ state_data' = create_agent_state(state_data)
    /\ created' = TRUE
    /\ UNCHANGED <<tool_file, op, arg, ret, raised, ever_valid, written,
                   last_set, validations, local_is_valid, checked_org>>

\* line 81
validate_state_return ==
    /\ pc = "return"
    /\ pc' = "idle"
    /\ op' = "validate_state"
    /\ arg' = <<>>
    /\ ret' = local_is_valid
    /\ raised' = ""
    /\ ever_valid' = (ever_valid \/ local_is_valid = "True")
    /\ validations' = IF validations = 0 THEN 1 ELSE 2
    /\ UNCHANGED <<state_data, tool_file, created, written, last_set,
                   local_is_valid, checked_org>>

\* a step of the validating thread
ThreadStep == storage_error' = "" /\ UNCHANGED serverVars

ValidateStateCall == validate_state_call /\ ThreadStep
ValidateStateCheckOrgName == validate_state_check_org_name /\ ThreadStep
ValidateStateCheckBaseUrl == validate_state_check_base_url /\ ThreadStep
ValidateStateCheckSwaggerJson == validate_state_check_swagger_json /\ ThreadStep
ValidateStateCreate == validate_state_create /\ ThreadStep
ValidateStateReturn == validate_state_return /\ ThreadStep

NextConcurrent ==
    \/ SetOrgName
    \/ SetBaseUrl
    \/ SetSwaggerJson
    \/ ValidateStateCall
    \/ ValidateStateCheckOrgName
    \/ ValidateStateCheckBaseUrl
    \/ ValidateStateCheckSwaggerJson
    \/ ValidateStateCreate
    \/ ValidateStateReturn

SpecConcurrent == Init /\ [][NextConcurrent]_vars

----------------------------------------------------------------------------
(* The demonstration payment server, src/gcp/server.py *)

\* str(uuid4()): an id never handed out before
Ids == 1..MaxIds
FreshIds == Ids \ (DOMAIN payments_store \cup DOMAIN payouts_store)

\* request fields; an Optional value is <<>> for None and <<v>> for v
Amounts == {100}
Currencies == {"USD", "EUR"}
References == {<<>>, <<"ref">>}

\* a dict with one more key
Put(store, key, value) ==
    [k \in DOMAIN store \cup {key} |-> IF k = key THEN value ELSE store[k]]

\* mutant: the reference of the request is not stored
initiate_payment_drops_reference(payment_id, amount, currency, reference) ==
    /\ payment_id \in FreshIds
    /\ payments_store' =
           Put(payments_store, payment_id,
               [status |-> "PENDING", amount |-> amount, currency |-> currency,
                reference |-> <<>>, created_at |-> utc_now])
    /\ utc_now' = utc_now + 1
    /\ request' = [route |-> "POST /payments/initiate", amount |-> amount,
                   currency |-> currency, reference |-> reference]
    /\ response' = [status_code |-> 200, payment_id |-> payment_id,
                    status |-> "PENDING", created_at |-> utc_now]
    /\ initiated' = Put(initiated, payment_id,
                        [amount |-> amount, currency |-> currency,
                         reference |-> reference])
    /\ UNCHANGED payouts_store

initiate_payment(payment_id, amount, currency, reference) ==
    /\ payment_id \in FreshIds
    /\ payments_store' =
           Put(payments_store, payment_id,
               [status |-> "PENDING", amount |-> amount, currency |-> currency,
                reference |-> reference, created_at |-> utc_now])
    /\ utc_now' = utc_now + 1
    /\ request' = [route |-> "POST /payments/initiate", amount |-> amount,
                   currency |-> currency, reference |-> reference]
    /\ response' = [status_code |-> 200, payment_id |-> payment_id,
                    status |-> "PENDING", created_at |-> utc_now]
    /\ initiated' = Put(initiated, payment_id,
                        [amount |-> amount, currency |-> currency,
                         reference |-> reference])
    /\ UNCHANGED payouts_store

\* mutant: an id missing from payments_store is looked up in payouts_store
get_payment_status_any_store(payment_id) ==
    /\ request' = [route |-> "GET /payments/{payment_id}/status",
                   payment_id |-> payment_id]
    /\ response' =
           IF payment_id \in DOMAIN payments_store
           THEN LET payment == payments_store[payment_id] IN
                [status_code |-> 200, payment_id |-> payment_id,
                 status |-> payment.status,
                 processed_at |-> IF payment.status = "COMPLETED"
                                  THEN <<utc_now>> ELSE <<>>,
                 amount |-> payment.amount, currency |-> payment.currency,
                 reference |-> payment.reference]
           ELSE IF payment_id \in DOMAIN payouts_store
           THEN LET payout == payouts_store[payment_id] IN
                [status_code |-> 200, payment_id |-> payment_id,
                 status |-> payout.status, processed_at |-> <<>>,
                 amount |-> payout.amount, currency |-> payout.currency,
                 reference |-> <<>>]
           ELSE [status_code |-> 404, detail |-> "Payment not found"]
    /\ UNCHANGED <<payments_store, payouts_store, utc_now, initiated>>

get_payment_status(payment_id) ==
    /\ request' = [route |-> "GET /payments/{payment_id}/status",
                   payment_id |-> payment_id]
    /\ response' =
           IF payment_id \notin DOMAIN payments_store
           THEN [status_code |-> 404, detail |-> "Payment not found"]
           ELSE LET payment == payments_store[payment_id] IN
                [status_code |-> 200, payment_id |-> payment_id,
                 status |-> payment.status,
                 processed_at |-> IF payment.status = "COMPLETED"
                                  THEN <<utc_now>> ELSE <<>>,
                 amount |-> payment.amount, currency |-> payment.currency,
                 reference |-> payment.reference]
    /\ UNCHANGED <<payments_store, payouts_store, utc_now, initiated>>

\* mutant: the payout is stored in payments_store
send_payout_into_payments(payout_id, amount, currency) ==
    /\ payout_id \in FreshIds
    /\ payments_store' =
           Put(payments_store, payout_id,
               [status |-> "SENT", amount |-> amount, currency |-> currency,
                reference |-> <<>>, created_at |-> utc_now])
    /\ utc_now' = utc_now + 1
    /\ request' = [route |-> "POST /payouts/send", amount |-> amount,
                   currency |-> currency]
    /\ response' = [status_code |-> 200, payout_id |-> payout_id,
                    status |-> "SENT", sent_at |-> utc_now]
    /\ UNCHANGED <<payouts_store, initiated>>

send_payout(payout_id, amount, currency) ==
    /\ payout_id \in FreshIds
    /\ payouts_store' =
           Put(payouts_store, payout_id,
               [status |-> "SENT", amount |-> amount, currency |-> currency,
                sent_at |-> utc_now])
    /\ utc_now' = utc_now + 1
    /\ request' = [route |-> "POST /payouts/send", amount |-> amount,
                   currency |-> currency]
    /\ response' = [status_code |-> 200, payout_id |-> payout_id,
                    status |-> "SENT", sent_at |-> utc_now]
    /\ UNCHANGED <<payments_store, initiated>>

\* the tool functions run in another process
ToolsIdle == UNCHANGED <<toolVars, storage_error, threadVars>>

InitiatePayment ==
    /\ \E id \in Ids, amount \in Amounts, currency \in Currencies,
          reference \in References :
           initiate_payment(id, amount, currency, reference)
    /\ ToolsIdle

GetPaymentStatus ==
    /\ \E id \in Ids : get_payment_status(id)
    /\ ToolsIdle

SendPayout ==
    /\ \E id \in Ids, amount \in Amounts, currency \in Currencies :
           send_payout(id, amount, currency)
    /\ ToolsIdle

NextServer ==
    \/ InitiatePayment
    \/ GetPaymentStatus
    \/ SendPayout

SpecServer == Init /\ [][NextServer]_vars

----------------------------------------------------------------------------
(* Properties *)

\* a str that is non-empty after trimming: it holds a non-whitespace character
NonBlank(s) == \E i \in 1..Len(s) : s[i] \notin Whitespace

\* the configuration is valid: each of the three fields is non-blank
ConfigurationValid == \A key \in RequiredKeys : NonBlank(state_data[key])

\* C1: validate_state returns True if and only if org_name, base_url and
\* swagger_json are all non-empty after trimming whitespace, and False as soon
\* as one of them is empty or whitespace-only.
C1_ValidateIffAllNonBlank ==
    op = "validate_state" =>
        /\ raised = ""
        /\ ret \in {"True", "False"}
        /\ ret = "True" <=> ConfigurationValid

\* C1 witness: validate_state has returned True on a configuration whose
\* fields carry leading or trailing whitespace.
C1_Witness ==
    /\ op = "validate_state"
    /\ ret = "True"
    /\ state_data["org_name"] = <<" ", "a">>
    /\ state_data["base_url"] = <<"a", " ">>

\* C2: validate_state is a pure query: it changes none of the configuration
\* fields, neither creates nor replaces the agent handle in state_data, and
\* does not write to the generated tool module.
C2_ValidateIsPure ==
    [][op' = "validate_state" =>
          /\ state_data' = state_data
          /\ tool_file' = tool_file]_vars

\* C3: while no create_agent call has succeeded, every write_code_to_tool call
\* fails with the missing-handle error (KeyError on state_data["agent"]), for
\* every code string, and appends nothing to the module.
C3_WriteWithoutHandleFails ==
    [][(op' = "write_code_to_tool" /\ ~created) =>
          /\ raised' = "KeyError"
          /\ tool_file' = tool_file]_vars

\* C3 witness: write_code_to_tool was called with the empty string before any
\* create_agent call, and raised.
C3_Witness ==
    /\ op = "write_code_to_tool"
    /\ arg = <<>>
    /\ ~created
    /\ raised = "KeyError"
    /\ tool_file = <<>>

\* C4: every write_code_to_tool call that succeeds is preceded by a
\* validate_state call that returned True.
C4_WriteOnlyAfterValidation ==
    (op = "write_code_to_tool" /\ raised = "") => ever_valid

\* C5: create_agent fails whenever the configuration is invalid; it returns
\* and stores a handle only when all three fields are non-blank.
C5_CreateAgentRejectsInvalid ==
    op = "create_agent" =>
        IF ConfigurationValid
        THEN raised = "" /\ "agent" \in DOMAIN state_data
        ELSE raised # ""

\* C6: when validate_state returns False, no agent is created and the writer
\* is not invoked: state_data and the module are as they were before the call.
C6_FailedValidationChangesNothing ==
    [][(op' = "validate_state" /\ ret' = "False") =>
          /\ state_data' = state_data
          /\ tool_file' = tool_file
          /\ created' = created
          /\ written' = written]_vars

\* C6 witness: validate_state returned False with org_name and base_url set
\* and swagger_json left empty; no handle exists and the module is empty.
C6_Witness ==
    /\ op = "validate_state"
    /\ ret = "False"
    /\ NonBlank(state_data["org_name"])
    /\ NonBlank(state_data["base_url"])
    /\ state_data["swagger_json"] = <<>>
    /\ "agent" \notin DOMAIN state_data
    /\ tool_file = <<>>

\* the setter of each configuration field
SetterOf(key) ==
    CASE key = "org_name" -> "set_org_name"
      [] key = "base_url" -> "set_base_url"
      [] key = "swagger_json" -> "set_swagger_json"

\* C7: a setter never fails, takes any string, overwrites exactly its own
\* field with the given value and leaves everything else in state_data as it
\* was; each field always holds the value its setter was last called with.
C7_SettersLastWriteWins ==
    /\ [][\A key \in RequiredKeys :
             op' = SetterOf(key) =>
                 /\ raised' = ""
                 /\ ret' = "None"
                 /\ state_data' = [state_data EXCEPT ![key] = arg']]_vars
    /\ [](\A key \in RequiredKeys : state_data[key] = last_set[key])

\* C7 witness: set_base_url was called with the empty string over a non-blank
\* value (one that an earlier validation had accepted).
C7_Witness ==
    /\ op = "set_base_url"
    /\ arg = <<>>
    /\ state_data["base_url"] = <<>>
    /\ ever_valid
    /\ state_data["org_name"] = <<"a", " ">>

\* C8: a validation that directly follows another validation, with the
\* configuration unchanged in between, appends nothing to the module.
C8_RevalidationAppendsNothing ==
    [][(op' = "validate_state" /\ validations' = 2) =>
          /\ tool_file' = tool_file
          /\ written' = written]_vars

\* C8 witness: two validations in succession have both returned True.
C8_Witness ==
    /\ op = "validate_state"
    /\ validations = 2
    /\ ret = "True"

\* C9: every validate_state call that returns True triggers one
\* synthesis/write cycle: one fragment is appended to the module.
C9_ValidationTriggersOneWrite ==
    [][(op' = "validate_state" /\ ret' = "True") =>
          /\ Len(tool_file') = Len(tool_file) + 1
          /\ Len(written') = Len(written) + 1]_vars

C11_StorageErrorPropagates ==
    [][storage_error' # "" =>
          /\ op' = "write_code_to_tool"
          /\ raised' = storage_error'
          /\ written' = written]_vars

\* C11 witness: a write failed in the storage after an earlier write had
\* succeeded; the caller holds the storage's error.
C11_Witness ==
    /\ op = "write_code_to_tool"
    /\ storage_error = "OSError"
    /\ raised = "OSError"
    /\ arg = <<"a">>
    /\ tool_file = <<<<>>>>

\* C12: after a write that succeeded the manifest and the persisted code
\* agree: the identifiers of the manifest are exactly the functions the
\* persisted fragments define; code whose manifest does not match its
\* definitions is rejected and not written.
C12_ManifestMatchesCode ==
    (op = "write_code_to_tool" /\ raised = "") =>
        Manifest(tool_file) = Definitions(tool_file)

StatusRoute == "GET /payments/{payment_id}/status"

\* C13: a status request for the id of a payment that an initiate request
\* created, whatever requests came in between, answers 200 with status
\* PENDING, processed_at null and the amount, currency and reference that
\* were given at initiation.
C13_StatusOfInitiatedPayment ==
    (request.route = StatusRoute /\ request.payment_id \in DOMAIN initiated) =>
        /\ response.status_code = 200
        /\ response.payment_id = request.payment_id
        /\ response.status = "PENDING"
        /\ response.processed_at = <<>>
        /\ response.amount = initiated[request.payment_id].amount
        /\ response.currency = initiated[request.payment_id].currency
        /\ response.reference = initiated[request.payment_id].reference

\* C13 witness: the status of a payment with a reference was asked for after
\* a second payment and a payout had been created as well.
C13_Witness ==
    /\ request.route = StatusRoute
    /\ request.payment_id \in DOMAIN initiated
    /\ response.status_code = 200
    /\ response.reference = <<"ref">>
    /\ Cardinality(DOMAIN payments_store) = 2
    /\ Cardinality(DOMAIN payouts_store) = 1

\* C14: a status request for an id that no initiate request returned, an id
\* of a payout included, answers 404 and changes neither store.
C14_UnknownPaymentIs404 ==
    [][(request'.route = StatusRoute
            /\ request'.payment_id \notin DOMAIN initiated) =>
          /\ response'.status_code = 404
          /\ payments_store' = payments_store
          /\ payouts_store' = payouts_store]_vars

\* C14 witness: the status of a payout's id was asked for and answered 404.
C14_Witness ==
    /\ request.route = StatusRoute
    /\ request.payment_id \in DOMAIN payouts_store
    /\ response.status_code = 404
    /\ payments_store # <<>>

\* C17: the payment store only grows and its entries never change:
\* initiate_payment adds one entry under a fresh id with status PENDING,
\* get_payment_status changes no store, send_payout changes only the payout
\* store; so every stored payment has status PENDING.
C17_PaymentStoreOnlyGrows ==
    /\ [][/\ (\A old \in DOMAIN payments_store :
                 /\ old \in DOMAIN payments_store'
                 /\ payments_store'[old] = payments_store[old])
           /\ (request'.route = "POST /payments/initiate" =>
                 /\ \E new \in Ids \ (DOMAIN payments_store
                                          \cup DOMAIN payouts_store) :
                        /\ DOMAIN payments_store' = DOMAIN payments_store \cup {new}
                        /\ payments_store'[new].status = "PENDING"
                 /\ payouts_store' = payouts_store)
           /\ (request'.route = StatusRoute =>
                 /\ payments_store' = payments_store
                 /\ payouts_store' = payouts_store)
           /\ (request'.route = "POST /payouts/send" =>
                 /\ payments_store' = payments_store
                 /\ payouts_store' # payouts_store)]_vars
    /\ [](\A id \in DOMAIN payments_store :
              payments_store[id].status = "PENDING")

\* C17 witness: a payout was sent after two payments had been initiated.
C17_Witness ==
    /\ request.route = "POST /payouts/send"
    /\ Cardinality(DOMAIN payments_store) = 2
    /\ Cardinality(DOMAIN payouts_store) = 1

\* a step in which create_agent ran: called directly, or by a validate_state
\* call that returned True
CreatesHandle ==
    op' = "create_agent" \/ (op' = "validate_state" /\ ret' = "True")

\* C16: a stored handle is never removed, whatever the setters do to the
\* fields and whatever validate_state returns, so write_code_to_tool is never
\* refused for a missing handle again; the stored handle is the one of the
\* most recent create_agent call and carries the org_name of that moment.
C16_HandleStays ==
    [][/\ ("agent" \in DOMAIN state_data => "agent" \in DOMAIN state_data')
       /\ (CreatesHandle =>
              state_data'["agent"].org_name = state_data["org_name"])
       /\ (("agent" \in DOMAIN state_data /\ ~CreatesHandle) =>
              state_data'["agent"] = state_data["agent"])
       /\ (("agent" \in DOMAIN state_data /\ op' = "write_code_to_tool") =>
              raised' # "KeyError")]_vars

\* C16 witness: a write was accepted through a handle made for org_name "a"
\* after set_org_name had emptied the field.
C16_Witness ==
    /\ op = "write_code_to_tool"
    /\ raised = ""
    /\ state_data["org_name"] = <<>>
    /\ state_data["agent"].org_name = <<"a">>
    /\ ~is_valid(state_data)

\* C15: with set_org_name running beside validate_state, a validate_state
\* call that returns True has built the handle from the org_name its check
\* read, which is non-empty after trimming.
C15_HandleFromCheckedOrgName ==
    (pc = "idle" /\ op = "validate_state" /\ ret = "True") =>
        /\ state_data["agent"].org_name = checked_org
        /\ NonBlank(state_data["agent"].org_name)

====
